---- MODULE Spec2Model ----
(***************************************************************************)
(* The notice API of notice-api/server.js: the request handlers over the   *)
(* notice table and the upload directory, with the helper functions they   *)
(* call (sanitizeInput, validateTitle, validateContent, validateId).       *)
(*                                                                         *)
(* Text is a sequence of one-character strings.  A JavaScript value is a   *)
(* record [t, s, n, a]: t is its type tag, s the text of a string, n the   *)
(* value of a number, a the elements of an array.                          *)
(***************************************************************************)
EXTENDS Integers, Sequences, FiniteSets, TLC

(***************************************************************************)
(* Bounds of the model.                                                    *)
(***************************************************************************)
\* The auto-increment counter of the notice table stops at MaxId.
MaxId == 2
\* The server clock runs from 0 to MaxTime.
MaxTime == 1
\* The random token of a generated file name is drawn from 1..MaxRnd.
MaxRnd == 2
\* uploadDir holds at most MaxFiles files.
MaxFiles == 2

(***************************************************************************)
(* Program constants.                                                      *)
(***************************************************************************)
MaxTitleLen == 255
MaxContentLen == 50000
MaxPageSize == 100
MaxBatchIds == 100
MaxFileSize == 5242880

NoTime == -1

(***************************************************************************)
(* Text.                                                                   *)
(***************************************************************************)
Rep(c, n) == [i \in 1..n |-> c]

Min(S) == CHOOSE x \in S : \A y \in S : x <= y
Max(S) == CHOOSE x \in S : \A y \in S : x >= y

\* String.prototype.trim, for the white space of the model's alphabet.
trim(s) ==
  LET idx == {i \in 1..Len(s) : s[i] # " "}
  IN IF idx = {} THEN <<>> ELSE SubSeq(s, Min(idx), Max(idx))

(***************************************************************************)
(* xss(): the markup neutralization of the xss package with its default    *)
(* options, for text whose tags hold no white space, quotes or comments.   *)
(* A tag runs from a "<" to the next ">" (or to the end of the text) with  *)
(* no other "<" between; a tag whose name is on the white list is kept,    *)
(* any other tag and every "<" and ">" outside a tag is escaped.           *)
(***************************************************************************)
EscapeChar(c) ==
  IF c = "<" THEN <<"&", "l", "t", ";">>
  ELSE IF c = ">" THEN <<"&", "g", "t", ";">>
  ELSE <<c>>

\* s.replace(/</g, "&lt;").replace(/>/g, "&gt;"), by halves.
RECURSIVE escapeHtml(_)
escapeHtml(s) ==
  IF Len(s) = 0 THEN <<>>
  ELSE IF Len(s) = 1 THEN EscapeChar(s[1])
  ELSE LET h == Len(s) \div 2
       IN escapeHtml(SubSeq(s, 1, h)) \o escapeHtml(SubSeq(s, h + 1, Len(s)))

getTagName(tag) ==
  LET inner == SubSeq(tag, 2, Len(tag) - 1)
  IN IF inner # <<>> /\ Head(inner) = "/" THEN Tail(inner) ELSE inner

\* The one-letter tags of the package's default white list.
whiteList == {<<"a">>, <<"b">>, <<"i">>, <<"p">>, <<"s">>, <<"u">>}

onTag(tag) == IF getTagName(tag) \in whiteList THEN tag ELSE escapeHtml(tag)

\* The text from lastPos on: up to the next "<" (tagStart) it is plain; the
\* tag ends at the next ">" or at the end of the text, and starts again at a
\* "<" met before that.
RECURSIVE parseTag(_, _)
parseTag(s, lastPos) ==
  LET starts == {j \in lastPos..Len(s) : s[j] = "<"}
      tagStart == Min(starts)
      k == Min({j \in (tagStart + 1)..Len(s) :
                  s[j] \in {"<", ">"} \/ j = Len(s)})
  IN IF starts = {} \/ tagStart = Len(s)
     THEN escapeHtml(SubSeq(s, lastPos, Len(s)))
     ELSE IF s[k] = "<"
          THEN escapeHtml(SubSeq(s, lastPos, k - 1)) \o parseTag(s, k)
          ELSE escapeHtml(SubSeq(s, lastPos, tagStart - 1))
                 \o onTag(SubSeq(s, tagStart, k))
                 \o parseTag(s, k + 1)

xss(s) == parseTag(s, 1)

(***************************************************************************)
(* JavaScript values.                                                      *)
(***************************************************************************)
Undefined == [t |-> "undefined", s |-> <<>>, n |-> 0, a |-> <<>>]
Null == [t |-> "null", s |-> <<>>, n |-> 0, a |-> <<>>]
NaN == [t |-> "nan", s |-> <<>>, n |-> 0, a |-> <<>>]
Str(s) == [t |-> "string", s |-> s, n |-> 0, a |-> <<>>]
Num(n) == [t |-> "number", s |-> <<>>, n |-> n, a |-> <<>>]
Arr(a) == [t |-> "array", s |-> <<>>, n |-> 0, a |-> a]

\* !v
Falsy(v) ==
  \/ v.t \in {"undefined", "null", "nan"}
  \/ v.t = "string" /\ v.s = <<>>
  \/ v.t = "number" /\ v.n = 0

\* v.length > max: a string's length is its number of characters, an array's
\* its number of elements, a number has none (undefined > max is false).
LengthOver(v, max) ==
  \/ v.t = "string" /\ Len(v.s) > max
  \/ v.t = "array" /\ Len(v.a) > max

Digits == <<"0", "1", "2", "3", "4", "5", "6", "7", "8", "9">>

RECURSIVE NatToText(_)
NatToText(n) ==
  IF n < 10 THEN <<Digits[n + 1]>>
  ELSE NatToText(n \div 10) \o <<Digits[(n % 10) + 1]>>

IntToText(n) == IF n < 0 THEN <<"-">> \o NatToText(-n) ELSE NatToText(n)

\* String(v); an array is joined with ",", null and undefined elements as "".
RECURSIVE ToText(_)
ToText(v) ==
  CASE v.t = "string" -> v.s
    [] v.t = "number" -> IntToText(v.n)
    [] v.t = "nan" -> <<"N", "a", "N">>
    [] v.t = "null" -> <<"n", "u", "l", "l">>
    [] v.t = "undefined" -> <<"u", "n", "d", "e", "f", "i", "n", "e", "d">>
    [] v.t = "array" ->
         LET el(i) == IF v.a[i].t \in {"null", "undefined"} THEN <<>>
                      ELSE ToText(v.a[i])
             join[i \in 0..Len(v.a)] ==
               IF i = 0 THEN <<>>
               ELSE IF i = 1 THEN el(1)
               ELSE join[i - 1] \o <<",">> \o el(i)
         IN join[Len(v.a)]

DigitValue(c) == CHOOSE d \in 0..9 : Digits[d + 1] = c

RECURSIVE TextToNat(_)
TextToNat(s) ==
  IF s = <<>> THEN 0
  ELSE 10 * TextToNat(SubSeq(s, 1, Len(s) - 1)) + DigitValue(s[Len(s)])

IsDigits(s) == s # <<>> /\ \A i \in 1..Len(s) : \E d \in 1..10 : Digits[d] = s[i]

\* Number(text), for decimal integer literals with an optional "-": the text
\* is trimmed, the empty text is 0, anything else is NaN.
TextToNumber(s) ==
  LET x == trim(s)
  IN IF x = <<>> THEN Num(0)
     ELSE IF IsDigits(x) THEN Num(TextToNat(x))
     ELSE IF Head(x) = "-" /\ IsDigits(Tail(x)) THEN Num(-TextToNat(Tail(x)))
     ELSE NaN

\* Number(v)
ToNumber(v) ==
  CASE v.t = "number" -> v
    [] v.t = "nan" -> NaN
    [] v.t = "undefined" -> NaN
    [] v.t = "null" -> Num(0)
    [] v.t = "string" -> TextToNumber(v.s)
    [] v.t = "array" -> TextToNumber(ToText(v))

\* x > k and x <= k for a number x: every comparison with NaN is false.
Greater(x, k) == x.t = "number" /\ x.n > k
AtMost(x, k) == x.t = "number" /\ x.n <= k

(***************************************************************************)
(* Input validation and sanitization helper functions.                     *)
(***************************************************************************)
sanitizeInput(input) ==
  IF input.t # "string" THEN input ELSE Str(xss(trim(input.s)))

\* A validateTitle whose limit is off by one: C3 does not hold of it.
validateTitleOffByOne(title) ==
  IF Falsy(title) THEN "Title is required"
  ELSE IF LengthOver(title, MaxTitleLen + 1)
       THEN "Title is too long (max 255 characters)"
  ELSE ""

\* "" stands for null: no error.
validateTitle(title) ==
  IF Falsy(title) THEN "Title is required"
  ELSE IF LengthOver(title, MaxTitleLen)
       THEN "Title is too long (max 255 characters)"
  ELSE ""

validateContent(content) ==
  IF Falsy(content) THEN "Content is required"
  ELSE IF LengthOver(content, MaxContentLen)
       THEN "Content is too long (max 50000 characters)"
  ELSE ""

\* A validateId that lets 0 through: C7 does not hold of it.
validateIdZeroAllowed(id) ==
  LET numId == ToNumber(Str(id))
  IN IF numId.t # "number" \/ AtMost(numId, -1) THEN "Invalid ID" ELSE ""

validateId(id) ==
  LET numId == ToNumber(Str(id))
  IN IF Falsy(numId) \/ AtMost(numId, 0) THEN "Invalid ID" ELSE ""

\* A content_delta that is sanitized as title and content are: C9 does not
\* hold of it.
contentDeltaSanitized(v) ==
  IF Falsy(v) THEN Null ELSE sanitizeInput(Str(ToText(v)))

\* req.body.content_delta ? String(req.body.content_delta) : null
contentDelta(v) == IF Falsy(v) THEN Null ELSE Str(ToText(v))

(***************************************************************************)
(* The response envelope.                                                  *)
(***************************************************************************)
\* The data of an envelope: the inserted id (create), the rows read (get,
\* list), total, page and size (list), the url (upload), true (the rest).
NoData ==
  [id |-> 0, rows |-> <<>>, total |-> 0, page |-> 0, size |-> 0,
   url |-> <<>>, true |-> FALSE]

True == [NoData EXCEPT !.true = TRUE]

ok(data) == [status |-> 200, code |-> 0, msg |-> "ok", data |-> data]

bad(msg) == [status |-> 400, code |-> 1, msg |-> msg, data |-> NoData]

\* The last middleware: an error no handler answered.
serverError ==
  [status |-> 500, code |-> 1, msg |-> "server error", data |-> NoData]

NoResponse == [status |-> 0, code |-> 0, msg |-> "", data |-> NoData]

(***************************************************************************)
(* Requests.                                                               *)
(***************************************************************************)
ScriptTag == <<"<", "s", "c", "r", "i", "p", "t", ">">>

\* The request bodies of create and update, by name.
BodyOf ==
  [ \* plain text, no content_delta
    plain |->
      [title |-> Str(<<"a">>), content |-> Str(<<"a">>),
       content_delta |-> Undefined],
    \* white space around the title, markup in the content and the delta
    markup |->
      [title |-> Str(<<" ", "a", " ">>), content |-> Str(ScriptTag \o <<"a">>),
       content_delta |-> Str(ScriptTag)],
    \* a title of 256 characters
    long |->
      [title |-> Str(Rep("a", MaxTitleLen + 1)), content |-> Str(<<"a">>),
       content_delta |-> Undefined],
    \* a title of 256 characters, the last one a blank; an empty delta
    padded |->
      [title |-> Str(Rep("a", MaxTitleLen) \o <<" ">>), content |-> Str(<<"b">>),
       content_delta |-> Str(<<>>)],
    \* a title of 255 characters whose markup grows when it is escaped
    grows |->
      [title |-> Str(ScriptTag \o Rep("a", MaxTitleLen - Len(ScriptTag))),
       content |-> Str(<<"a">>), content_delta |-> Undefined],
    \* a title of 300 blanks
    blank |->
      [title |-> Str(Rep(" ", 300)), content |-> Str(<<"a">>),
       content_delta |-> Undefined],
    \* no title
    untitled |->
      [title |-> Undefined, content |-> Str(<<"a">>),
       content_delta |-> Undefined],
    \* no content
    empty |->
      [title |-> Str(<<"a">>), content |-> Undefined,
       content_delta |-> Undefined],
    \* a title that is an array holding markup, a delta that is a number
    array |->
      [title |-> Arr(<<Str(ScriptTag)>>), content |-> Str(<<"a">>),
       content_delta |-> Num(5)],
    \* a title that is an array of 256 elements
    longarray |->
      [title |-> Arr(Rep(Str(<<"a">>), MaxTitleLen + 1)),
       content |-> Str(<<"a">>), content_delta |-> Undefined] ]

Bodies == DOMAIN BodyOf

\* The :id of a path: the ids the table can hold, one more, and ids that
\* are not positive numbers.
IdParams ==
  {IntToText(i) : i \in 1..(MaxId + 1)}
    \cup {<<"0">>, <<"-", "1">>, <<"a">>}

\* The ids of the batch_delete bodies, by name.
IdsOf ==
  [ missing |-> Undefined,
    text |-> Str(<<"1">>),
    none |-> Arr(<<>>),
    invalid |-> Arr(<<Num(0), Num(-1), Str(<<"a">>)>>),
    one |-> Arr(<<Num(1)>>),
    two |-> Arr(<<Str(<<"2">>), Num(0)>>),
    both |-> Arr(<<Num(1), Str(<<"a">>), Num(2)>>),
    hundred |-> Arr([i \in 1..MaxBatchIds |-> Num(i)]),
    hundredvalid |->
      Arr([i \in 1..(MaxBatchIds + 1) |-> IF i = 1 THEN Num(0) ELSE Num(i - 1)]),
    hundredone |-> Arr([i \in 1..(MaxBatchIds + 1) |-> Num(i)]) ]

IdLists == DOMAIN IdsOf

\* sanitizeInput over the titles and contents of the model's requests,
\* computed once.
sanitized ==
  [v \in {BodyOf[b].title : b \in Bodies} \cup {BodyOf[b].content : b \in Bodies}
     |-> sanitizeInput(v)]

\* A request: its operation, the :id of its path, and the name of its body,
\* query or upload among the model's.
Request(op, id, input) == [op |-> op, id |-> id, input |-> input]

(***************************************************************************)
(* State.                                                                  *)
(***************************************************************************)
VARIABLES
  notice,    \* the notice table: id -> row
  nextId,    \* its AUTO_INCREMENT counter
  now,       \* the server clock
  uploads,   \* the names of the files in uploadDir
  upload,    \* the upload request between its arrival and its end
  pending,   \* the list requests between their two queries
  req,       \* the last request handled
  resp,      \* the response it got
  calls      \* the storage calls it issued: [queries, writes]

vars == <<notice, nextId, now, uploads, upload, pending, req, resp, calls>>

NoCalls == [queries |-> 0, writes |-> 0]

\* No list request is between its two queries.
NoList == [name |-> "", rows |-> <<>>, seen |-> <<>>]

\* No error has been passed to next().
NoError == [multer |-> FALSE, code |-> "", message |-> ""]

\* No upload request is between its arrival and its end.  Of one that is:
\* its name and Host header, the part uploader.single('file') reads next, how
\* many more files it takes in field 'file', the error passed to next(), the
\* names of the files written for it, the filename of req.file (<<>> when
\* not set), the files whose fs.unlink has not completed, and whether it has
\* been answered.
NoUpload ==
  [name |-> "", host |-> <<>>, part |-> 0, filesLeft |-> 0, error |-> NoError,
   wrote |-> {}, file |-> <<>>, removing |-> {}, answered |-> FALSE]

Init ==
  /\ notice = <<>>
  /\ nextId = 1
  /\ now = 0
  /\ uploads = {}
  /\ upload = NoUpload
  /\ pending = NoList
  /\ req = Request("none", <<>>, "")
  /\ resp = NoResponse
  /\ calls = NoCalls

\* A handler that answers without a storage call.
Reject(r, msg) ==
  /\ req' = r
  /\ resp' = bad(msg)
  /\ calls' = NoCalls
  /\ UNCHANGED <<notice, nextId, now, uploads, upload, pending>>

\* A handler that answers ok after one query that leaves the table as
\* table and the counter as counter.
Query(r, table, counter, data) ==
  /\ req' = r
  /\ resp' = ok(data)
  /\ calls' = [queries |-> 1, writes |-> 0]
  /\ notice' = table
  /\ nextId' = counter
  /\ UNCHANGED <<now, uploads, upload, pending>>

Rows == DOMAIN notice

\* INSERT INTO notice (title, content, content_delta, status) VALUES
\* (?, ?, ?, 'draft'): publish_time is NULL and created_at the time of the
\* insert.
InsertedRow(title, content, content_delta) ==
  [title |-> title, content |-> content, content_delta |-> content_delta,
   status |-> "draft", publish_time |-> NoTime, created_at |-> now]

\* An update that makes the row a draft again: C2 does not hold of it.
UpdatedRowAsDraft(row, title, content, content_delta) ==
  [row EXCEPT !.title = title, !.content = content,
              !.content_delta = content_delta, !.status = "draft"]

\* UPDATE notice SET title=?, content=?, content_delta=? WHERE id=?
UpdatedRow(row, title, content, content_delta) ==
  [row EXCEPT !.title = title, !.content = content,
              !.content_delta = content_delta]

\* A publish that stamps a row only when it was a draft: C10 does not hold
\* of it.
PublishedRowOnce(row) ==
  [row EXCEPT !.status = "published",
              !.publish_time = IF row.status = "published"
                               THEN row.publish_time ELSE now]

\* UPDATE notice SET status='published', publish_time=NOW() WHERE id=?
PublishedRow(row) ==
  [row EXCEPT !.status = "published", !.publish_time = now]

(***************************************************************************)
(* POST /api/notices                                                       *)
(***************************************************************************)
CreateNotice(name) ==
  LET r == Request("create", <<>>, name)
      body == BodyOf[name]
      title == sanitized[body.title]
      content == sanitized[body.content]
      content_delta == contentDelta(body.content_delta)
      titleError == validateTitle(title)
      contentError == validateContent(content)
      row == InsertedRow(title, content, content_delta)
  IN IF titleError # "" THEN Reject(r, titleError)
     ELSE IF contentError # "" THEN Reject(r, contentError)
     ELSE /\ nextId <= MaxId
          /\ Query(r, [i \in Rows \cup {nextId} |->
                         IF i = nextId THEN row ELSE notice[i]],
                   nextId + 1, [NoData EXCEPT !.id = nextId])

(***************************************************************************)
(* PUT /api/notices/:id                                                    *)
(***************************************************************************)
UpdateNotice(id, name) ==
  LET r == Request("update", id, name)
      body == BodyOf[name]
      validationError == validateId(id)
      numId == ToNumber(Str(id)).n
      title == sanitized[body.title]
      content == sanitized[body.content]
      content_delta == contentDelta(body.content_delta)
      titleError == validateTitle(title)
      contentError == validateContent(content)
  IN IF validationError # "" THEN Reject(r, validationError)
     ELSE IF titleError # "" THEN Reject(r, titleError)
     ELSE IF contentError # "" THEN Reject(r, contentError)
     ELSE Query(r, [i \in Rows |->
                      IF i = numId
                      THEN UpdatedRow(notice[i], title, content, content_delta)
                      ELSE notice[i]],
                nextId, True)

(***************************************************************************)
(* POST /api/notices/:id/publish                                           *)
(***************************************************************************)
\* A publish that looks the row up first and answers 'not found' when there
\* is none: C11 does not hold of it.
PublishNoticeChecked(id) ==
  LET r == Request("publish", id, "")
      validationError == validateId(id)
      numId == ToNumber(Str(id)).n
  IN IF validationError # "" THEN Reject(r, validationError)
     ELSE IF numId \notin Rows
          THEN /\ req' = r
               /\ resp' = bad("not found")
               /\ calls' = [queries |-> 1, writes |-> 0]
               /\ UNCHANGED <<notice, nextId, now, uploads, upload, pending>>
     ELSE Query(r, [i \in Rows |->
                      IF i = numId THEN PublishedRow(notice[i]) ELSE notice[i]],
                nextId, True)

PublishNotice(id) ==
  LET r == Request("publish", id, "")
      validationError == validateId(id)
      numId == ToNumber(Str(id)).n
  IN IF validationError # "" THEN Reject(r, validationError)
     ELSE Query(r, [i \in Rows |->
                      IF i = numId
                      THEN PublishedRow(notice[i])
                      ELSE notice[i]],
                nextId, True)

(***************************************************************************)
(* DELETE /api/notices/:id                                                 *)
(***************************************************************************)
DeleteNotice(id) ==
  LET r == Request("delete", id, "")
      validationError == validateId(id)
      numId == ToNumber(Str(id)).n
  IN IF validationError # "" THEN Reject(r, validationError)
     ELSE Query(r, [i \in Rows \ {numId} |-> notice[i]], nextId, True)

(***************************************************************************)
(* GET /api/notices/:id                                                    *)
(***************************************************************************)
GetNotice(id) ==
  LET r == Request("get", id, "")
      validationError == validateId(id)
      numId == ToNumber(Str(id)).n
      rows == IF numId \in Rows THEN <<[id |-> numId] @@ notice[numId]>>
              ELSE <<>>
  IN IF validationError # "" THEN Reject(r, validationError)
     ELSE IF rows = <<>>
          THEN /\ req' = r
               /\ resp' = bad("not found")
               /\ calls' = [queries |-> 1, writes |-> 0]
               /\ UNCHANGED <<notice, nextId, now, uploads, upload, pending>>
     ELSE Query(r, notice, nextId, [NoData EXCEPT !.rows = rows])

(***************************************************************************)
(* POST /api/notices/batch_delete                                          *)
(***************************************************************************)
\* A safeIds that keeps every entry that is a number: C8 does not hold of
\* it.
safeIdsOfNumbers(ids) ==
  LET numbers == [i \in 1..Len(ids.a) |-> ToNumber(ids.a[i])]
      number(n) == n.t = "number"
  IN SelectSeq(numbers, number)

\* ids.map(n => Number(n)).filter(n => n > 0)
safeIds(ids) ==
  LET numbers == [i \in 1..Len(ids.a) |-> ToNumber(ids.a[i])]
      positive(n) == Greater(n, 0)
  IN SelectSeq(numbers, positive)

\* req.body.ids || []
idsOrEmpty(v) == IF Falsy(v) THEN Arr(<<>>) ELSE v

\* safeIds over the ids of the model's requests, computed once.
safeIdsOf ==
  [name \in IdLists |->
     IF idsOrEmpty(IdsOf[name]).t = "array"
     THEN safeIds(idsOrEmpty(IdsOf[name])) ELSE <<>>]

BatchDelete(name) ==
  LET r == Request("batch_delete", <<>>, name)
      ids == idsOrEmpty(IdsOf[name])
      safe == safeIdsOf[name]
      deleted == {safe[i].n : i \in 1..Len(safe)}
  IN IF ids.t # "array" \/ Len(ids.a) = 0 THEN Reject(r, "ids required")
     ELSE IF Len(safe) = 0 THEN Reject(r, "ids invalid")
     ELSE IF Len(safe) > MaxBatchIds
          THEN Reject(r, "Too many IDs in batch operation (max 100)")
     ELSE Query(r, [i \in Rows \ deleted |-> notice[i]], nextId, True)

(***************************************************************************)
(* GET /api/notices                                                        *)
(***************************************************************************)
Txt(word) ==
  CASE word = "draft" -> <<"d", "r", "a", "f", "t">>
    [] word = "published" -> <<"p", "u", "b", "l", "i", "s", "h", "e", "d">>

\* The query strings of the list requests, by name.
QueryOf ==
  [ default |-> [page |-> Undefined, size |-> Undefined, status |-> Undefined],
    first |-> [page |-> Str(<<"1">>), size |-> Str(<<"1">>), status |-> Undefined],
    second |-> [page |-> Str(<<"2">>), size |-> Str(<<"1">>), status |-> Undefined],
    most |-> [page |-> Str(<<>>), size |-> Str(IntToText(MaxPageSize)),
              status |-> Str(<<>>)],
    over |-> [page |-> Undefined, size |-> Str(IntToText(MaxPageSize + 1)),
              status |-> Undefined],
    zero |-> [page |-> Str(<<"0">>), size |-> Undefined, status |-> Undefined],
    negative |-> [page |-> Undefined, size |-> Str(<<"-", "1">>),
                  status |-> Undefined],
    nanpage |-> [page |-> Str(<<"a">>), size |-> Undefined, status |-> Undefined],
    nansize |-> [page |-> Undefined, size |-> Str(<<"a">>), status |-> Undefined],
    drafts |-> [page |-> Undefined, size |-> Undefined,
                status |-> Str(<<" ">> \o Txt("draft") \o <<" ">>)],
    published |-> [page |-> Undefined, size |-> Undefined,
                   status |-> Str(Txt("published"))],
    badstatus |-> [page |-> Undefined, size |-> Undefined,
                   status |-> Str(<<"a">>)] ]

Queries == DOMAIN QueryOf

\* Number(req.query.page || 1), Number(req.query.size || 10)
pageOf(query) == ToNumber(IF Falsy(query.page) THEN Num(1) ELSE query.page)
sizeOf(query) == ToNumber(IF Falsy(query.size) THEN Num(10) ELSE query.size)
\* (req.query.status || '').trim()
statusOf(query) == IF Falsy(query.status) THEN <<>> ELSE trim(query.status.s)

\* The ids of the rows the WHERE clause keeps.
Matching(status) ==
  {i \in Rows : status = <<>> \/ Txt(notice[i].status) = status}

\* An ORDER BY created_at that puts the oldest row first: C12 does not hold
\* of it.
OrdersAscending(S) ==
  {o \in [1..Cardinality(S) -> S] :
     /\ \A i, j \in 1..Cardinality(S) : i # j => o[i] # o[j]
     /\ \A i, j \in 1..Cardinality(S) :
          i < j => notice[o[i]].created_at <= notice[o[j]].created_at}

\* ORDER BY created_at DESC: the orders of the ids in S that put no row
\* before one created later; rows created at the same time come in any order.
Orders(S) ==
  {o \in [1..Cardinality(S) -> S] :
     /\ \A i, j \in 1..Cardinality(S) : i # j => o[i] # o[j]
     /\ \A i, j \in 1..Cardinality(S) :
          i < j => notice[o[i]].created_at >= notice[o[j]].created_at}

\* LIMIT size OFFSET offset
Limit(o, size, offset) ==
  SubSeq(o, offset + 1, IF offset + size < Len(o) THEN offset + size ELSE Len(o))

\* The columns of the list's SELECT.
Listed(i) ==
  [id |-> i, title |-> notice[i].title, content |-> notice[i].content,
   status |-> notice[i].status, publish_time |-> notice[i].publish_time,
   created_at |-> notice[i].created_at]

\* The handler up to its first query.
ListRows(name) ==
  LET r == Request("list", <<>>, name)
      page == pageOf(QueryOf[name])
      size == sizeOf(QueryOf[name])
      status == statusOf(QueryOf[name])
      offset == (page.n - 1) * size.n
  IN IF AtMost(page, 0) \/ AtMost(size, 0) \/ Greater(size, MaxPageSize)
     THEN Reject(r, "page/size invalid")
     ELSE IF status # <<>> /\ status \notin {Txt("draft"), Txt("published")}
          THEN Reject(r, "invalid status")
     ELSE IF page.t = "nan" \/ size.t = "nan"
          \* LIMIT NaN or OFFSET NaN: the query is sent and fails
          THEN /\ req' = r
               /\ resp' = serverError
               /\ calls' = [queries |-> 1, writes |-> 0]
               /\ UNCHANGED <<notice, nextId, now, uploads, upload, pending>>
     ELSE /\ pending = NoList
          /\ \E o \in Orders(Matching(status)) :
               pending' =
                 [name |-> name,
                  rows |-> [i \in DOMAIN Limit(o, size.n, offset) |->
                              Listed(Limit(o, size.n, offset)[i])],
                  \* the table this query has read, kept to tell whether
                  \* a write comes before the second query
                  seen |-> notice]
          /\ UNCHANGED <<notice, nextId, now, uploads, upload, req, resp, calls>>

\* The handler from its second query on.
ListTotal ==
  LET name == pending.name
      total == Cardinality(Matching(statusOf(QueryOf[name])))
  IN /\ pending # NoList
     /\ pending' = NoList
     /\ req' = Request("list", <<>>, name)
     /\ resp' = ok([NoData EXCEPT !.rows = pending.rows, !.total = total,
                                  !.page = pageOf(QueryOf[name]).n,
                                  !.size = sizeOf(QueryOf[name]).n])
     /\ calls' = [queries |-> 2, writes |-> 0]
     /\ UNCHANGED <<notice, nextId, now, uploads, upload>>

(***************************************************************************)
(* POST /api/upload                                                        *)
(***************************************************************************)
Upper ==
  <<"A", "B", "C", "D", "E", "F", "G", "H", "I", "J", "K", "L", "M",
    "N", "O", "P", "Q", "R", "S", "T", "U", "V", "W", "X", "Y", "Z">>
Lower ==
  <<"a", "b", "c", "d", "e", "f", "g", "h", "i", "j", "k", "l", "m",
    "n", "o", "p", "q", "r", "s", "t", "u", "v", "w", "x", "y", "z">>

toLowerCase(s) ==
  [i \in DOMAIN s |->
     IF \E k \in DOMAIN Upper : Upper[k] = s[i]
     THEN Lower[CHOOSE k \in DOMAIN Upper : Upper[k] = s[i]]
     ELSE s[i]]

\* path.extname: of the last portion of the path, trailing "/" left out,
\* the text from its last "." on; empty when that portion has no ".", when
\* its only "." is its first character, and when it is "..".
extname(path) ==
  LET others == {i \in DOMAIN path : path[i] # "/"}
      end == Max(others)
      slashes == {i \in 1..end : path[i] = "/"}
      startPart == IF slashes = {} THEN 1 ELSE Max(slashes) + 1
      dots == {i \in startPart..end : path[i] = "."}
      startDot == Max(dots)
  IN IF others = {} THEN <<>>
     ELSE IF dots = {} THEN <<>>
     ELSE IF startDot = startPart THEN <<>>
     ELSE IF path[startPart] = "." /\ startDot = end /\ startDot = startPart + 1
          THEN <<>>
     ELSE SubSeq(path, startDot, end)

\* The alternatives of /jpeg|jpg|png|gif/
allowedFileTypes ==
  {<<"j", "p", "e", "g">>, <<"j", "p", "g">>, <<"p", "n", "g">>,
   <<"g", "i", "f">>}

\* allowedFileTypes.test(text): some alternative occurs somewhere in text.
test(text) ==
  \E alt \in allowedFileTypes :
    \E i \in 1..(Len(text) - Len(alt) + 1) :
      SubSeq(text, i, i + Len(alt) - 1) = alt

\* TRUE when the filter lets the file through, FALSE when it calls back with
\* the Error 'Invalid file type...'.
fileFilter(file) == test(toLowerCase(extname(file.originalname)))

\* storage.filename: Date.now() + '_' + the random token + the extension.
filename(file, rnd) ==
  IntToText(now) \o <<"_">> \o IntToText(rnd)
    \o toLowerCase(extname(file.originalname))

\* A file part and a text field of a multipart body.
File(fieldname, originalname, size) ==
  [kind |-> "file", fieldname |-> fieldname, originalname |-> originalname,
   size |-> size]

Field(fieldname, size) ==
  [kind |-> "field", fieldname |-> fieldname, originalname |-> <<>>,
   size |-> size]

\* limits sets no fieldSize: a text field holds up to 1MB.
MaxFieldSize == 1048576

\* The parts of the upload requests, by name.
UploadOf ==
  [ png |-> <<File("file", <<"a", ".", "p", "n", "g">>, 1)>>,
    upper |-> <<File("file", <<"A", ".", "J", "P", "G">>, 1)>>,
    gif |-> <<File("file", <<"a", ".", "b", ".", "g", "i", "f">>, MaxFileSize)>>,
    exe |-> <<File("file", <<"a", ".", "e", "x", "e">>, 1)>>,
    hidden |-> <<File("file", <<"a", ".", "p", "n", "g", ".", "e", "x", "e">>, 1)>>,
    bare |-> <<File("file", <<"p", "n", "g">>, 1)>>,
    pngx |-> <<File("file", <<"a", ".", "p", "n", "g", "x">>, 1)>>,
    big |-> <<File("file", <<"a", ".", "p", "n", "g">>, MaxFileSize + 1)>>,
    bigexe |-> <<File("file", <<"a", ".", "e", "x", "e">>, MaxFileSize + 1)>>,
    other |-> <<File("other", <<"a", ".", "p", "n", "g">>, 1)>>,
    two |-> <<File("file", <<"a", ".", "p", "n", "g">>, 1),
              File("file", <<"b", ".", "p", "n", "g">>, 1)>>,
    titled |-> <<Field("title", MaxFieldSize),
                 File("file", <<"a", ".", "p", "n", "g">>, 1)>>,
    longfield |-> <<File("file", <<"a", ".", "p", "n", "g">>, 1),
                    Field("title", MaxFieldSize + 1)>>,
    nothing |-> <<>> ]

Uploads == DOMAIN UploadOf

\* req.headers.host
Hosts == {<<"h">>}

\* The messages of multer's errors, by code.
errorMessages ==
  [ LIMIT_PART_COUNT |-> "Too many parts",
    LIMIT_FILE_SIZE |-> "File too large",
    LIMIT_FILE_COUNT |-> "Too many files",
    LIMIT_FIELD_KEY |-> "Field name too long",
    LIMIT_FIELD_VALUE |-> "Field value too long",
    LIMIT_FIELD_COUNT |-> "Too many fields",
    LIMIT_UNEXPECTED_FILE |-> "Unexpected field",
    MISSING_FIELD_NAME |-> "Field name missing" ]

\* new multer.MulterError(code), new Error(message)
MulterError(code) ==
  [multer |-> TRUE, code |-> code, message |-> errorMessages[code]]

Error(message) == [multer |-> FALSE, code |-> "", message |-> message]

\* The multer error handling middleware, and the 500 handler after it.
multerError(error) ==
  IF error.multer
  THEN CASE error.code = "LIMIT_FILE_SIZE" ->
              bad("File too large. Maximum size is 5MB.")
         [] error.code = "LIMIT_FILE_COUNT" ->
              bad("Too many files. Only one file allowed.")
         [] error.code = "LIMIT_UNEXPECTED_FILE" ->
              bad("Unexpected field name for file upload.")
         [] OTHER -> bad(error.message)
  ELSE serverError

\* An upload request arrives.
Upload(name, host) ==
  /\ upload = NoUpload
  /\ upload' = [NoUpload EXCEPT !.name = name, !.host = host, !.part = 1,
                                !.filesLeft = 1]
  /\ UNCHANGED <<notice, nextId, now, uploads, pending, req, resp, calls>>

\* uploader.single('file') reads the next part of the body.  A file that
\* passes the checks is written to uploadDir under the name storage gives
\* it; the first error stops the reading, and the files written for the
\* request, the one cut at the size limit too, are then removed.
single(rnd) ==
  LET parts == UploadOf[upload.name]
      part == parts[upload.part]
      name == filename(part, rnd)
      abort(error, cut) ==
        [upload EXCEPT !.error = error, !.file = <<>>,
                       !.wrote = @ \cup cut,
                       !.removing = upload.wrote \cup cut]
  IN /\ upload # NoUpload
     /\ ~upload.answered
     /\ upload.error = NoError
     /\ upload.part <= Len(parts)
     /\ UNCHANGED <<notice, nextId, now, pending, req, resp, calls>>
     /\ IF part.kind = "field"
        THEN /\ uploads' = uploads
             /\ upload' = IF part.size > MaxFieldSize
                          THEN abort(MulterError("LIMIT_FIELD_VALUE"), {})
                          ELSE [upload EXCEPT !.part = @ + 1]
        ELSE IF part.fieldname # "file" \/ upload.filesLeft = 0
        THEN /\ uploads' = uploads
             /\ upload' = abort(MulterError("LIMIT_UNEXPECTED_FILE"), {})
        ELSE IF ~fileFilter(part)
        THEN /\ uploads' = uploads
             /\ upload' = abort(Error("Invalid file type. Only jpeg, jpg, png, and gif files are allowed."), {})
        ELSE /\ Cardinality(uploads \cup {name}) <= MaxFiles
             /\ uploads' = uploads \cup {name}
             /\ upload' = IF part.size > MaxFileSize
                          THEN abort(MulterError("LIMIT_FILE_SIZE"), {name})
                          ELSE [upload EXCEPT !.part = @ + 1,
                                              !.filesLeft = @ - 1,
                                              !.wrote = @ \cup {name},
                                              !.file = name]

\* An fs.unlink completes: of a file multer removes after an error, or of
\* the file the handler has found to have a wrong extension.
unlink ==
  /\ \E f \in upload.removing :
       /\ uploads' = uploads \ {f}
       /\ upload' = IF upload.answered /\ upload.removing = {f}
                    THEN NoUpload
                    ELSE [upload EXCEPT !.removing = @ \ {f}]
  /\ UNCHANGED <<notice, nextId, now, pending, req, resp, calls>>

\* The error of uploader.single('file') reaches the multer error handling
\* middleware, once the files of the request are removed.
UploadFailed ==
  /\ upload.error # NoError
  /\ upload.removing = {}
  /\ ~upload.answered
  /\ req' = Request("upload", <<>>, upload.name)
  /\ resp' = multerError(upload.error)
  /\ calls' = [queries |-> 0, writes |-> Cardinality(upload.wrote)]
  /\ upload' = NoUpload
  /\ UNCHANGED <<notice, nextId, now, uploads, pending>>

\* The handler of POST /api/upload, after uploader.single('file') has read
\* the body without an error.  (Nothing sets req.fileValidationError.)
UploadHandled ==
  LET r == Request("upload", <<>>, upload.name)
      url == <<"h", "t", "t", "p", ":", "/", "/">> \o upload.host
               \o <<"/", "u", "p", "l", "o", "a", "d", "s", "/">> \o upload.file
  IN /\ upload # NoUpload
     /\ ~upload.answered
     /\ upload.error = NoError
     /\ upload.part > Len(UploadOf[upload.name])
     /\ req' = r
     /\ calls' = [queries |-> 0, writes |-> Cardinality(upload.wrote)]
     /\ UNCHANGED <<notice, nextId, now, uploads, pending>>
     /\ IF upload.file = <<>>
        THEN /\ resp' = bad("File upload failed or invalid file type")
             /\ upload' = NoUpload
        ELSE IF ~test(toLowerCase(extname(upload.file)))
        THEN \* fs.unlink is started and the answer does not wait for it
             /\ resp' = bad("Invalid file type. Only jpeg, jpg, png, and gif files are allowed.")
             /\ upload' = [upload EXCEPT !.answered = TRUE,
                                         !.removing = {upload.file}]
        ELSE /\ resp' = ok([NoData EXCEPT !.url = url])
             /\ upload' = NoUpload

(***************************************************************************)
(* The server clock.                                                       *)
(***************************************************************************)
Tick ==
  /\ now < MaxTime
  /\ now' = now + 1
  /\ UNCHANGED <<notice, nextId, uploads, upload, pending, req, resp, calls>>

(***************************************************************************)
(* The life of a notice: the writes of the notice API addressed to ids     *)
(* that are valid, and the server clock.                                   *)
(***************************************************************************)
RowIds == {IntToText(i) : i \in 1..(MaxId + 1)}

Next ==
  \/ CreateNotice("plain")
  \/ \E id \in RowIds, body \in {"markup", "untitled"} : UpdateNotice(id, body)
  \/ \E id \in RowIds : PublishNotice(id)
  \/ \E id \in RowIds : DeleteNotice(id)
  \/ \E ids \in {"one", "invalid"} : BatchDelete(ids)
  \/ Tick

Spec == Init /\ [][Next]_vars

(***************************************************************************)
(* The handlers addressed by id over every id of the model, and the batch  *)
(* delete over every list of ids.                                          *)
(***************************************************************************)
IdNext ==
  \/ CreateNotice("plain")
  \/ \E id \in IdParams : GetNotice(id)
  \/ \E id \in IdParams : UpdateNotice(id, "markup")
  \/ \E id \in IdParams : PublishNotice(id)
  \/ \E id \in IdParams : DeleteNotice(id)
  \/ \E ids \in IdLists : BatchDelete(ids)

IdSpec == Init /\ [][IdNext]_vars

(***************************************************************************)
(* Create and update over every body of the model.                         *)
(***************************************************************************)
EditNext ==
  \/ \E body \in Bodies : CreateNotice(body)
  \/ \E id \in IdParams, body \in Bodies : UpdateNotice(id, body)

EditSpec == Init /\ [][EditNext]_vars

(***************************************************************************)
(* The list, one request at a time, with the writes of other requests      *)
(* between its two queries.                                                *)
(***************************************************************************)
ListNext ==
  \/ \E query \in Queries : ListRows(query)
  \/ ListTotal
  \/ CreateNotice("plain")
  \/ \E i \in 1..MaxId : PublishNotice(IntToText(i))
  \/ \E i \in 1..MaxId : DeleteNotice(IntToText(i))
  \/ Tick

ListSpec == Init /\ [][ListNext]_vars

(***************************************************************************)
(* The upload.                                                             *)
(***************************************************************************)
UploadNext ==
  \/ \E name \in Uploads, host \in Hosts : Upload(name, host)
  \/ \E rnd \in 1..MaxRnd : single(rnd)
  \/ unlink
  \/ UploadFailed
  \/ UploadHandled
  \/ Tick

UploadSpec == Init /\ [][UploadNext]_vars

(***************************************************************************)
(* Properties.                                                             *)
(***************************************************************************)
TitleTooLong == "Title is too long (max 255 characters)"

\* The number :id stands for, 0 when it stands for none.
NumberOf(id) == ToNumber(Str(id)).n

\* Text that trim and xss leave as it is.
Sanitized(v) == v.t = "string" /\ xss(trim(v.s)) = v.s

\* C1: every title and every content stored in the notice table is an output
\* of the sanitizer: a string, trimmed and with its markup neutralized.
C1_StoredTextSanitized ==
  \A i \in Rows : Sanitized(notice[i].title) /\ Sanitized(notice[i].content)

\* C2: a row is created as a draft, only publish changes the status of a
\* row, and only to published.
C2_StatusOnlyPublished ==
  [][\A i \in DOMAIN notice' :
       /\ i \notin Rows => notice'[i].status = "draft"
       /\ (i \in Rows /\ notice'[i].status # notice[i].status) =>
            req'.op = "publish" /\ notice'[i].status = "published"]_vars

\* An update was answered ok for a published row, which is still published
\* and has the title of the request.
C2_Witness ==
  /\ req.op = "update"
  /\ resp.code = 0
  /\ NumberOf(req.id) \in Rows
  /\ notice[NumberOf(req.id)].status = "published"
  /\ notice[NumberOf(req.id)].title = sanitized[BodyOf[req.input].title]

\* C3, as claimed: a create or update whose supplied title is longer than 255
\* characters is answered 'Title is too long (max 255 characters)'.
C3_SuppliedTitleTooLong ==
  (req.op \in {"create", "update"}
     /\ LengthOver(BodyOf[req.input].title, MaxTitleLen))
    => resp = bad(TitleTooLong)

\* C3, amended: a create, or an update with a valid id, whose title after
\* sanitization is longer than 255 is answered 'Title is too long (max 255
\* characters)' and leaves the notice table as it was.
C3_SanitizedTitleTooLong ==
  [][(/\ req'.op \in {"create", "update"}
      /\ req'.op = "update" => validateId(req'.id) = ""
      /\ LengthOver(sanitized[BodyOf[req'.input].title], MaxTitleLen))
       => (resp' = bad(TitleTooLong) /\ notice' = notice)]_vars

\* An update of an existing row whose title of 255 characters grows past 255
\* when its markup is escaped was answered 'Title is too long'.
C3_Witness ==
  /\ req.op = "update"
  /\ NumberOf(req.id) \in Rows
  /\ ~LengthOver(BodyOf[req.input].title, MaxTitleLen)
  /\ LengthOver(sanitized[BodyOf[req.input].title], MaxTitleLen)
  /\ resp = bad(TitleTooLong)

\* C4: an upload that is rejected gets a 4xx response with code 1 and a
\* message of its cause, never the 500 'server error'; one file of an allowed
\* type that is larger than 5MB gets 'File too large. Maximum size is 5MB.'
C4_RejectedUploadIsClientError ==
  (req.op = "upload" /\ resp.code # 0) =>
    /\ resp.status \in 400..499
    /\ resp.code = 1
    /\ resp.msg # "server error"
    /\ (req.input = "big") => resp.msg = "File too large. Maximum size is 5MB."

Dot(ext) == <<".">> \o ext

\* C5: an upload whose extension, in lower case, is not one of .jpeg, .jpg,
\* .png, .gif is rejected without a write to uploadDir, and every file in
\* uploadDir has one of these four extensions.
C5_OnlyAllowedExtensionsStored ==
  /\ \A f \in uploads : \E ext \in allowedFileTypes : extname(f) = Dot(ext)
  /\ (/\ req.op = "upload"
      /\ \E i \in DOMAIN UploadOf[req.input] :
           /\ UploadOf[req.input][i].kind = "file"
           /\ \A ext \in allowedFileTypes :
                toLowerCase(extname(UploadOf[req.input][i].originalname)) # Dot(ext))
       => (resp.code = 1 /\ calls.writes = 0)

\* C6: a list request whose page or size is not a number greater than 0, or
\* whose size is over 100, is answered 'page/size invalid' without a query.
C6_ListValidatesPageAndSize ==
  (/\ req.op = "list"
   /\ ~(/\ Greater(pageOf(QueryOf[req.input]), 0)
        /\ Greater(sizeOf(QueryOf[req.input]), 0)
        /\ AtMost(sizeOf(QueryOf[req.input]), MaxPageSize)))
    => (resp = bad("page/size invalid") /\ calls.queries = 0)

\* C7: get, update, publish and delete answer an id that is not a number or
\* is not greater than 0 with 'Invalid ID', without a storage call and
\* without a change of the notice table.
C7_InvalidIdRejected ==
  [][(/\ req'.op \in {"get", "update", "publish", "delete"}
      /\ ~Greater(ToNumber(Str(req'.id)), 0))
       => /\ resp' = bad("Invalid ID")
          /\ calls' = NoCalls
          /\ notice' = notice
          /\ nextId' = nextId]_vars

\* A delete of id 0, "-1" or "a" was answered 'Invalid ID' with rows in the
\* table.
C7_Witness ==
  /\ req.op = "delete"
  /\ req.id \in {<<"0">>, <<"-", "1">>, <<"a">>}
  /\ resp = bad("Invalid ID")
  /\ Rows # {}

\* The entries of ids that are greater than 0 as numbers: how many there
\* are, and the numbers.
PositiveOf ==
  [name \in IdLists |->
     LET ids == IdsOf[name]
         at == IF ids.t = "array"
               THEN {i \in DOMAIN ids.a : Greater(ToNumber(ids.a[i]), 0)}
               ELSE {}
     IN [count |-> Cardinality(at), ids |-> {ToNumber(ids.a[i]).n : i \in at}]]

\* C8: a batch delete whose ids are no array, or hold no entry greater than
\* 0, or more than 100 of them, is rejected and deletes nothing; any other
\* deletes the rows whose ids are among these entries, and only them.
C8_BatchDeleteAllOrNothing ==
  [][req'.op = "batch_delete" =>
       LET positive == PositiveOf[req'.input]
       IN IF positive.count = 0 \/ positive.count > MaxBatchIds
          THEN /\ resp'.status = 400 /\ resp'.code = 1
               /\ notice' = notice
          ELSE /\ resp' = ok(True)
               /\ notice' = [i \in Rows \ positive.ids |-> notice[i]]]_vars

\* A batch delete of 100 valid ids emptied a table that held rows.
C8_Witness ==
  /\ req.op = "batch_delete"
  /\ PositiveOf[req.input].count = MaxBatchIds
  /\ resp = ok(True)
  /\ nextId > 1
  /\ Rows = {}

\* The row a create or an update answered ok has written: none when the
\* update was for an id without a row.
Written ==
  IF req.op = "create" /\ resp.code = 0 THEN {resp.data.id}
  ELSE IF req.op = "update" /\ resp.code = 0 THEN {NumberOf(req.id)} \cap Rows
  ELSE {}

\* C9, as claimed: the row holds the content_delta of the request as it was
\* supplied, and null only when the request had none.
C9_DeltaAsSupplied ==
  \A i \in Written :
    LET supplied == BodyOf[req.input].content_delta
    IN notice[i].content_delta =
         IF supplied.t = "undefined" THEN Null ELSE supplied

\* C9, amended: the row holds the text of the content_delta of the request,
\* a string as it was supplied and not sanitized, and null when the request
\* had none or a falsy one (null, the empty string, 0).
C9_DeltaAsText ==
  \A i \in Written :
    LET supplied == BodyOf[req.input].content_delta
    IN notice[i].content_delta =
         IF supplied.t = "string" /\ supplied.s # <<>> THEN supplied
         ELSE IF supplied.t \in {"undefined", "null", "nan"} THEN Null
         ELSE IF supplied.t = "string" \/ supplied = Num(0) THEN Null
         ELSE Str(ToText(supplied))

\* An update has written a content_delta that holds a script tag.
C9_Witness ==
  /\ req.op = "update"
  /\ Written # {}
  /\ \A i \in Written : notice[i].content_delta = Str(ScriptTag)

\* C10: publish of an existing notice leaves its row published with
\* publish_time the server time of the call, also when it was published
\* before, and changes no other column and no other row.  (A step that
\* leaves the clock alone and a publish as the last request is a publish.)
C10_PublishStampsRow ==
  [][(req'.op = "publish" /\ now' = now /\ NumberOf(req'.id) \in Rows) =>
       /\ resp' = ok(True)
       /\ DOMAIN notice' = Rows
       /\ \A i \in Rows :
            notice'[i] =
              IF i = NumberOf(req'.id)
              THEN [notice[i] EXCEPT !.status = "published",
                                     !.publish_time = now]
              ELSE notice[i]
       /\ notice'[NumberOf(req'.id)].publish_time # NoTime]_vars

\* A publish was answered ok for a row created before the call; its
\* publish_time is the time of the call, and a draft is in the table too.
C10_Witness ==
  /\ req.op = "publish"
  /\ resp = ok(True)
  /\ NumberOf(req.id) \in Rows
  /\ notice[NumberOf(req.id)].status = "published"
  /\ notice[NumberOf(req.id)].publish_time = now
  /\ notice[NumberOf(req.id)].created_at < now
  /\ \E i \in Rows : notice[i].status = "draft"

\* A step that leaves the clock alone and an update or a publish as the last
\* request is that request; it is addressed to a missing row when its id
\* is valid and the table has no row of that id.
ToMissingRow ==
  /\ req'.op \in {"update", "publish"}
  /\ now' = now
  /\ validateId(req'.id) = ""
  /\ NumberOf(req'.id) \notin Rows

\* C11, as claimed: every update and every publish addressed to a valid id
\* without a row is answered with the success envelope and leaves the
\* notice table unchanged.
C11_MissingRowAlwaysOk ==
  [][ToMissingRow => (resp' = ok(True) /\ notice' = notice)]_vars

\* C11, amended: a publish, and an update whose title and content pass
\* validation, addressed to a valid id without a row is answered with the
\* success envelope after one query; an update whose title or content fails
\* validation is answered with that error; either way the notice table is
\* unchanged: no row is created and no row is modified.
C11_MissingRowOk ==
  [][ToMissingRow =>
       LET body == BodyOf[req'.input]
           error == IF req'.op = "publish" THEN ""
                    ELSE IF validateTitle(sanitized[body.title]) # ""
                         THEN validateTitle(sanitized[body.title])
                    ELSE validateContent(sanitized[body.content])
       IN /\ resp' = IF error = "" THEN ok(True) ELSE bad(error)
          /\ calls'.queries = IF error = "" THEN 1 ELSE 0
          /\ notice' = notice
          /\ nextId' = nextId]_vars

\* An update with a valid body was answered ok for the id of a row that was
\* deleted, with another row in the table.
C11_Witness ==
  /\ req.op = "update"
  /\ resp = ok(True)
  /\ validateId(req.id) = ""
  /\ NumberOf(req.id) \notin Rows
  /\ NumberOf(req.id) < nextId
  /\ Rows # {}

\* The ids of the rows of table that the status filter keeps.
MatchingIn(table, status) ==
  {i \in DOMAIN table : status = <<>> \/ Txt(table[i].status) = status}

\* rows is a page of table: the rows of table that the filter keeps, put in
\* an order of creation time descending, without the first offset of them
\* and cut after size.
IsPage(rows, table, status, size, offset) ==
  LET kept == MatchingIn(table, status)
      ids == {rows[i].id : i \in DOMAIN rows}
      rest == kept \ ids
  IN /\ Len(rows) = Min({size, Max({0, Cardinality(kept) - offset})})
     /\ \A i \in DOMAIN rows :
          /\ rows[i].id \in kept
          /\ rows[i] = [id |-> rows[i].id,
                        title |-> table[rows[i].id].title,
                        content |-> table[rows[i].id].content,
                        status |-> table[rows[i].id].status,
                        publish_time |-> table[rows[i].id].publish_time,
                        created_at |-> table[rows[i].id].created_at]
     /\ \A i, j \in DOMAIN rows :
          i < j => /\ rows[i].id # rows[j].id
                   /\ rows[i].created_at >= rows[j].created_at
     /\ \E before \in SUBSET rest :
          /\ Cardinality(before) = Min({offset, Cardinality(kept)})
          /\ \A b \in before, i \in DOMAIN rows :
               table[b].created_at >= rows[i].created_at
          /\ \A a \in rest \ before, i \in DOMAIN rows :
               table[a].created_at <= rows[i].created_at

\* C12: a list request answers after two queries; its list is a page (at
\* most size rows from offset (page-1)*size, creation time descending) of
\* the rows matching the status filter in the table as its first query read
\* it, and its total the number of rows matching the filter in the table as
\* its second query reads it.  When no write has changed the table between
\* the two queries, the list is a page of the very rows the total counts;
\* when a create, delete or publish has, the two may disagree.
C12_ListReadsTwice ==
  [][(pending # NoList /\ pending' = NoList) =>
       LET query == QueryOf[pending.name]
           status == statusOf(query)
           size == sizeOf(query).n
           offset == (pageOf(query).n - 1) * size
       IN /\ req' = Request("list", <<>>, pending.name)
          /\ resp'.status = 200 /\ resp'.code = 0
          /\ calls'.queries = 2
          /\ notice' = notice
          /\ resp'.data.page = pageOf(query).n /\ resp'.data.size = size
          /\ resp'.data.total = Cardinality(MatchingIn(notice, status))
          /\ IsPage(resp'.data.rows, pending.seen, status, size, offset)
          /\ (pending.seen = notice) =>
               IsPage(resp'.data.rows, notice, status, size, offset)]_vars

\* A list was answered with a total smaller than the number of rows in its
\* list: a row of the list was deleted between the two queries.
C12_Witness ==
  /\ req.op = "list"
  /\ resp.code = 0
  /\ resp.data.total < Len(resp.data.rows)
  /\ \E i \in DOMAIN resp.data.rows : resp.data.rows[i].id \notin Rows

====
